---------------------------- MODULE Spec2Model ----------------------------
(***************************************************************************)
(* A model of the bingo struct-walking decoder (src/parser.go, the current *)
(* Parser of lines 462-935).  One top-level EmitReadStruct call is run as  *)
(* a small-step machine over an explicit call stack: emitReadStruct,       *)
(* readSliceOfLength, readFieldOfLimitedSize and readSliceFromBytes each   *)
(* own a frame, the reader p.r is a stack of layers (the byte source,      *)
(* io.LimitedReader wrappers, bytes.NewReader regions), and a panic        *)
(* freezes the stack until the deferred recover of EmitReadStruct runs.    *)
(*                                                                         *)
(* Strings that the code parses (tag values, field and method names) are   *)
(* sequences of one-character strings, so that the "()" suffix test of     *)
(* parseRefTag and the "!" prefix test of ifTagSatisfied are computed.     *)
(***************************************************************************)
EXTENDS Integers, Sequences, FiniteSets, TLC

(***************************************************************************)
(* Bounds of the model.                                                    *)
(***************************************************************************)
\* longest byte source handed to NewParser
MaxInput == 4

\* byte values that occur in the source (255 is -1 as an int8)
ByteVals == {0, 1, 2, 255}

(***************************************************************************)
(* Numbers and bytes (encoding/binary as called at src/parser.go:817).     *)
(***************************************************************************)
Min(a, b) == IF a < b THEN a ELSE b

Max(a, b) == IF a < b THEN b ELSE a

RECURSIVE Pow256(_)
Pow256(k) == IF k = 0 THEN 1 ELSE 256 * Pow256(k - 1)

Reverse(s) == [i \in 1..Len(s) |-> s[Len(s) + 1 - i]]

\* binary.LittleEndian.UintN: byte i weighs 256^i
RECURSIVE LittleEndianUint(_)
LittleEndianUint(bs) ==
    IF bs = <<>> THEN 0 ELSE bs[1] + 256 * LittleEndianUint(Tail(bs))

\* binary.BigEndian.UintN: the first byte is the most significant
BigEndianUint(bs) == LittleEndianUint(Reverse(bs))

\* seeded fault: every integer is read in little-endian order
DecodeIntLittle(bs, order, signed) ==
    LET u == LittleEndianUint(bs)
        m == Pow256(Len(bs))
    IN  IF signed /\ 2 * u >= m THEN u - m ELSE u

\* the value binary.Read stores into an integer of Len(bs) bytes
DecodeInt(bs, order, signed) ==
    LET u == IF order = "little" THEN LittleEndianUint(bs) ELSE BigEndianUint(bs)
        m == Pow256(Len(bs))
    IN  IF signed /\ 2 * u >= m THEN u - m ELSE u

(***************************************************************************)
(* uint is 64 bits wide in the program; the model keeps the wrap-around of *)
(* uint(val.Int()) and int(uint) at a narrower word so that TLC's integers *)
(* hold it.  Every length and size of the model fits either word.          *)
(***************************************************************************)
UintBits == 16

RECURSIVE Pow2(_)
Pow2(k) == IF k = 0 THEN 1 ELSE 2 * Pow2(k - 1)

UintMod == Pow2(UintBits)

\* the conversion uint(x) of a signed or unsigned integer x
ToUint(x) == x % UintMod

\* the conversion int(u) of a uint u
ToInt(u) == IF 2 * u >= UintMod THEN u - UintMod ELSE u

(***************************************************************************)
(* Record metadata: what reflect reports about the destination types.      *)
(* A field is described by its name, its kind, the width and signedness of *)
(* its integers, its array length, its element or struct type, and its     *)
(* struct tags.  An absent tag is the empty string, as with Tag.Get.       *)
(***************************************************************************)
Field(name, kind, w, signed, cnt, elem) ==
    [name |-> name, kind |-> kind, w |-> w, signed |-> signed, cnt |-> cnt,
     elem |-> elem, len |-> <<>>, size |-> <<>>, elemsize |-> <<>>,
     iff |-> <<>>, pad |-> <<>>, after |-> <<>>]

Uint8(name) == Field(name, "int", 1, FALSE, 0, "")

Int8(name) == Field(name, "int", 1, TRUE, 0, "")

Uint16(name) == Field(name, "int", 2, FALSE, 0, "")

Int16(name) == Field(name, "int", 2, TRUE, 0, "")

ArrayOf(name, cnt, w) == Field(name, "array", w, FALSE, cnt, "")

SliceOf(name, w) == Field(name, "slice", w, FALSE, 0, "")

SliceOfStruct(name, T) == Field(name, "slice", 0, FALSE, 0, T)

StructOf(name, T) == Field(name, "struct", 0, FALSE, 0, T)

FuncOf(name) == Field(name, "func", 0, FALSE, 0, "")

PtrOf(name) == Field(name, "ptr", 0, FALSE, 0, "")

\* the name of the method that the after tags refer to
CheckName == <<"C", "h", "e", "c", "k">>

\* the sentinel of a size tag that reads until the end of the input
Inf == <<"<", "i", "n", "f", ">">>

\* the values of the pad tag that the padded types carry
PadStrs == {<<"0">>, <<"1">>, <<"2">>, <<"3">>, <<"x">>}

PadTypeName(p) ==
    CASE p = <<"0">> -> "Pad0"
      [] p = <<"1">> -> "Pad1"
      [] p = <<"2">> -> "Pad2"
      [] p = <<"3">> -> "Pad3"
      [] OTHER -> "PadX"

PadOfTypeName(T) == CHOOSE p \in PadStrs : PadTypeName(p) = T

PadTypes == {PadTypeName(p) : p \in PadStrs}

\* the record types that are decoded at top level
TopTypes ==
    {"Empty", "FixedA", "FixedB", "SliceByte", "SliceInt", "SlicePair",
     "SliceVar", "SizeVar", "SizeByte", "Nested", "NestedPad", "Lengthy",
     "ConflictSlice", "ConflictStruct", "WrongVerifier", "SizedNested",
     "ElemSized", "Hooked", "HookedOuter", "BadLenField", "BadLenMethod",
     "BadSizeField", "BadSizeStruct", "Hidden", "PtrPlain", "PtrIf",
     "PtrHidden", "BareSlice", "BareInt", "BareVar", "LenInf", "Wide",
     "SizeEmpty", "SizedHooked"}
        \cup PadTypes

\* typ.NumField() and typ.Field(i): the fields of a type in declaration order
TypeDef(T) ==
    CASE T = "Empty" -> <<>>
      [] T = "FixedA" -> <<Uint8(<<"A">>), Int16(<<"B">>)>>
      [] T = "FixedB" -> <<ArrayOf(<<"C">>, 2, 1), Int8(<<"D">>)>>
      [] T = "Pair" -> <<Uint8(<<"A">>), Uint8(<<"B">>)>>
      [] T = "Str" ->
            <<Uint8(<<"L">>), [SliceOf(<<"C">>, 1) EXCEPT !.len = <<"L">>]>>
      [] T = "SliceByte" ->
            <<Uint8(<<"L">>), [SliceOf(<<"D">>, 1) EXCEPT !.len = <<"L">>]>>
      [] T = "SliceInt" ->
            <<Uint8(<<"L">>), [SliceOf(<<"D">>, 2) EXCEPT !.len = <<"L">>]>>
      [] T = "SlicePair" ->
            <<Uint8(<<"L">>),
              [SliceOfStruct(<<"D">>, "Pair") EXCEPT !.len = <<"L">>]>>
      [] T = "SliceVar" ->
            <<Int8(<<"N">>),
              [SliceOfStruct(<<"S">>, "Str") EXCEPT !.len = <<"N">>]>>
      [] T = "SizeVar" ->
            <<Int8(<<"Z">>),
              [SliceOfStruct(<<"E">>, "Str") EXCEPT !.size = <<"Z">>]>>
      [] T = "SizeByte" ->
            <<Uint8(<<"Z">>), [SliceOf(<<"E">>, 1) EXCEPT !.size = <<"Z">>]>>
      [] T = "Nested" -> <<Uint8(<<"H">>), StructOf(<<"N">>, "Str")>>
      [] T = "NestedPad" ->
            <<Uint8(<<"H">>),
              [StructOf(<<"N">>, "Str") EXCEPT !.pad = <<"2">>],
              Uint8(<<"T">>)>>
      [] T = "Lengthy" ->
            <<[Int8(<<"S">>) EXCEPT !.iff = <<"U">>],
              [Int16(<<"G">>) EXCEPT !.iff = <<"!", "U">>],
              FuncOf(<<"p">>)>>
      [] T = "ConflictSlice" ->
            <<Uint8(<<"L">>), Uint8(<<"Z">>),
              [SliceOf(<<"D">>, 1) EXCEPT !.len = <<"L">>, !.size = <<"Z">>]>>
      [] T = "ConflictStruct" ->
            <<Uint8(<<"L">>), Uint8(<<"Z">>),
              [StructOf(<<"N">>, "Str") EXCEPT !.len = <<"L">>,
                                               !.size = <<"Z">>]>>
      [] T = "WrongVerifier" -> <<>>
      [] T = "SizedNested" ->
            <<Uint8(<<"Z">>), [StructOf(<<"N">>, "Str") EXCEPT !.size = <<"Z">>]>>
      [] T = "ElemSized" ->
            <<Uint8(<<"N">>), Uint8(<<"Z">>),
              [SliceOfStruct(<<"S">>, "Str") EXCEPT !.len = <<"N">>,
                                                    !.elemsize = <<"Z">>]>>
      [] T = "Hooked" ->
            <<Uint8(<<"L">>),
              [SliceOf(<<"D">>, 1) EXCEPT !.len = <<"L">>, !.pad = <<"2">>,
                                          !.after = CheckName]>>
      [] T = "HookedOuter" -> <<StructOf(<<"N">>, "Hooked"), Uint8(<<"T">>)>>
      [] T = "BadLenField" ->
            <<Uint8(<<"L">>), [SliceOf(<<"D">>, 1) EXCEPT !.len = <<"X">>]>>
      [] T = "BadLenMethod" ->
            <<Uint8(<<"L">>),
              [SliceOf(<<"D">>, 1) EXCEPT !.len = <<"X", "(", ")">>]>>
      [] T = "BadSizeField" ->
            <<Uint8(<<"L">>), [SliceOf(<<"D">>, 1) EXCEPT !.size = <<"X">>]>>
      [] T = "BadSizeStruct" ->
            <<Uint8(<<"L">>),
              [StructOf(<<"N">>, "Str") EXCEPT !.size = <<"X", "(", ")">>]>>
      [] T = "Hidden" ->
            <<Uint8(<<"A">>), [Uint8(<<"b">>) EXCEPT !.iff = <<"U">>]>>
      [] T = "PtrPlain" ->
            <<Uint8(<<"A">>),
              [PtrOf(<<"P">>) EXCEPT !.len = <<"A">>, !.pad = <<"2">>,
                                     !.after = CheckName]>>
      [] T = "PtrIf" ->
            <<Uint8(<<"A">>), [PtrOf(<<"P">>) EXCEPT !.iff = <<"U">>]>>
      [] T = "PtrHidden" -> <<Uint8(<<"A">>), PtrOf(<<"p">>)>>
      [] T = "BareSlice" -> <<SliceOf(<<"D">>, 1), Uint8(<<"T">>)>>
      [] T = "BareInt" -> <<SliceOf(<<"D">>, 2), Uint8(<<"T">>)>>
      [] T = "BareVar" -> <<SliceOfStruct(<<"D">>, "Str"), Uint8(<<"T">>)>>
      [] T = "LenInf" -> <<[SliceOf(<<"D">>, 1) EXCEPT !.len = Inf]>>
      [] T = "Wide" -> <<Uint16(<<"A">>), Uint16(<<"B">>)>>
      [] T = "SizedHooked" ->
            <<Uint8(<<"Z">>),
              [StructOf(<<"N">>, "Hooked") EXCEPT !.size = <<"Z">>]>>
      [] T = "SizeEmpty" ->
            <<Uint8(<<"Z">>),
              [SliceOfStruct(<<"E">>, "Empty") EXCEPT !.size = <<"Z">>]>>
      [] T \in PadTypes ->
            LET padstr == PadOfTypeName(T)
            IN  <<Uint8(<<"L">>),
                  [SliceOf(<<"D">>, 1) EXCEPT !.len = <<"L">>, !.pad = padstr]>>

NumField(T) == Len(TypeDef(T))

UpperCase ==
    {"A", "B", "C", "D", "E", "F", "G", "H", "I", "J", "K", "L", "M",
     "N", "O", "P", "Q", "R", "S", "T", "U", "V", "W", "X", "Y", "Z"}

\* len(fieldtyp.PkgPath) > 0: the field's name does not start in upper case
Unexported(fld) == fld.name[1] \notin UpperCase

\* the zero value of a field and of a record
RECURSIVE ZeroRecord(_)
ZeroValue(fld) ==
    CASE fld.kind = "int" -> 0
      [] fld.kind = "array" -> [i \in 1..fld.cnt |-> 0]
      [] fld.kind = "slice" -> <<>>
      [] fld.kind = "struct" -> ZeroRecord(fld.elem)
      [] OTHER -> 0

ZeroRecord(T) == [i \in 1..NumField(T) |-> ZeroValue(TypeDef(T)[i])]

\* the zero value of one element of a slice field
ZeroElem(fld) == IF fld.elem = "" THEN 0 ELSE ZeroRecord(fld.elem)

(***************************************************************************)
(* encoding/binary on fixed-size data: binary.Size and binary.Read.        *)
(***************************************************************************)
\* binary.Size of one value of a field; -1 when it has no fixed size
RECURSIVE StructSize(_)
FieldSize(fld) ==
    CASE fld.kind = "int" -> fld.w
      [] fld.kind = "array" -> fld.cnt * fld.w
      [] fld.kind = "struct" -> StructSize(fld.elem)
      [] OTHER -> -1

RECURSIVE SumSizes(_, _)
SumSizes(fs, i) ==
    IF i > Len(fs) THEN 0
    ELSE LET a == FieldSize(fs[i])
             b == SumSizes(fs, i + 1)
         IN  IF a < 0 \/ b < 0 THEN -1 ELSE a + b

StructSize(T) == SumSizes(TypeDef(T), 1)

\* binary.Size of one element of a slice field
ElemSize(fld) == IF fld.elem = "" THEN fld.w ELSE StructSize(fld.elem)

\* binary.Size of a slice of n elements
SliceSize(fld, n) == IF ElemSize(fld) < 0 THEN -1 ELSE n * ElemSize(fld)

Chunk(bs, i, w) == SubSeq(bs, (i - 1) * w + 1, i * w)

\* binary.Read into a value of a fixed-size field from exactly its bytes
RECURSIVE ReadRecord(_, _, _)
ReadValue(fld, bs, order) ==
    CASE fld.kind = "int" -> DecodeInt(bs, order, fld.signed)
      [] fld.kind = "array" ->
            [i \in 1..fld.cnt |-> DecodeInt(Chunk(bs, i, fld.w), order, FALSE)]
      [] fld.kind = "struct" -> ReadRecord(fld.elem, bs, order)
      [] OTHER -> 0

\* the offset of field i in the encoding of a record with fields fs
RECURSIVE FieldStart(_, _)
FieldStart(fs, i) ==
    IF i = 1 THEN 0 ELSE FieldStart(fs, i - 1) + FieldSize(fs[i - 1])

\* binary.Read into the fields fs of a record, one after the other
ReadFields(fs, bs, order) ==
    [i \in 1..Len(fs) |->
        ReadValue(fs[i],
                  SubSeq(bs, FieldStart(fs, i) + 1,
                         FieldStart(fs, i) + FieldSize(fs[i])),
                  order)]

ReadRecord(T, bs, order) == ReadFields(TypeDef(T), bs, order)

\* a seeded fault: binary.Read that fills the slice from its last element
ReadSliceBackwards(fld, n, bs, order) ==
    LET w == ElemSize(fld)
    IN  [i \in 1..n |->
            IF fld.elem = ""
            THEN DecodeInt(Chunk(bs, n + 1 - i, w), order, fld.signed)
            ELSE ReadRecord(fld.elem, Chunk(bs, n + 1 - i, w), order)]

\* binary.Read into a slice of n fixed-size elements
ReadSlice(fld, n, bs, order) ==
    LET w == ElemSize(fld)
    IN  [i \in 1..n |->
            IF fld.elem = "" THEN DecodeInt(Chunk(bs, i, w), order, fld.signed)
            ELSE ReadRecord(fld.elem, Chunk(bs, i, w), order)]

(***************************************************************************)
(* The reader p.r: a stack of layers.  A "buf" layer is a byte source with *)
(* its own position (layer 1 is the source given to NewParser, later ones  *)
(* the bytes.NewReader regions of readSliceFromBytes); a "lim" layer is an *)
(* io.LimitedReader over the layer below it.  Reads go through the top     *)
(* layers down to the topmost "buf" layer.                                 *)
(***************************************************************************)
BufLayer(data) == [kind |-> "buf", data |-> data, pos |-> 0, n |-> 0]

LimLayer(n) == [kind |-> "lim", data |-> <<>>, pos |-> 0, n |-> n]

BaseIdx(rs) == CHOOSE i \in 1..Len(rs) :
                  /\ rs[i].kind = "buf"
                  /\ \A j \in (i + 1)..Len(rs) : rs[j].kind = "lim"

RECURSIVE AvailFrom(_, _)
AvailFrom(rs, i) ==
    IF rs[i].kind = "buf" THEN Len(rs[i].data) - rs[i].pos
    ELSE Min(Max(rs[i].n, 0), AvailFrom(rs, i - 1))

\* the number of bytes the reader can still deliver
Avail(rs) == AvailFrom(rs, Len(rs))

\* the next k bytes the reader delivers
Peek(rs, k) ==
    LET b == rs[BaseIdx(rs)] IN SubSeq(b.data, b.pos + 1, b.pos + k)

\* the reader after it delivered k bytes
Consume(rs, k) ==
    [i \in 1..Len(rs) |->
        IF i < BaseIdx(rs) THEN rs[i]
        ELSE IF rs[i].kind = "buf" THEN [rs[i] EXCEPT !.pos = @ + k]
        ELSE [rs[i] EXCEPT !.n = @ - k]]

(***************************************************************************)
(* The state of one Parser and of the EmitReadStruct call made on it.      *)
(***************************************************************************)
VARIABLES
    input,      \* the bytes of the source given to NewParser
    top,        \* the type of the record handed to EmitReadStruct
    byteOrder,  \* p.byteOrder: "little" or "big"
    strict,     \* p.strict
    panicky,    \* p.panicky
    flag,       \* what the closure called by the resolver method U returns
    rs,         \* p.r, the reader, as a stack of layers
    offset,     \* p.offset
    depth,      \* p.depth
    stack,      \* the call stack below EmitReadStruct
    dest,       \* the destination record
    err,        \* the value of the panic in flight or of the returned error
    status,     \* "ready", "running", "panicking", "ok", "error" or "fault"
    log         \* the calls of methods of the destination types, in order

vars == <<input, top, byteOrder, strict, panicky, flag, rs, offset, depth,
          stack, dest, err, status, log>>

\* the mutable part of the state, as one value the helpers transform
Cur == [rs |-> rs, offset |-> offset, depth |-> depth, stack |-> stack,
        dest |-> dest, err |-> err, status |-> status, log |-> log]

Commit(m) ==
    /\ rs' = m.rs
    /\ offset' = m.offset
    /\ depth' = m.depth
    /\ stack' = m.stack
    /\ dest' = m.dest
    /\ err' = m.err
    /\ status' = m.status
    /\ log' = m.log
    /\ UNCHANGED <<input, top, byteOrder, strict, panicky, flag>>

\* panics with a runtime.Error or reflect.ValueError value
RuntimeErrors == {"DivideByZero", "MakeSliceLen", "TypeAssertion"}

\* panic(err) of RaiseError and RaiseError2: nothing below the deferred
\* recover of EmitReadStruct runs any more
Raise(m, e) == [m EXCEPT !.err = e, !.status = "panicking"]

Panicking(m) == m.status = "panicking"

(***************************************************************************)
(* Call frames.  typ and idx name the record type and the field a frame    *)
(* works on, val the record (or, in a slice frame, the enclosing record),  *)
(* ret and got the value that a returned callee left in place, done the    *)
(* outcome of the last field handled (kept for the properties).            *)
(***************************************************************************)
\* what became of the field a frame handled last: skipped by its if tag
\* ("if"), skipped as unexported ("unexported") or decoded ("decoded"), with
\* p.offset before the field, after its dispatch and after its padding,
\* and the value the field had before
NoneDone == [idx |-> 0, how |-> "", start |-> 0, mid |-> 0, end |-> 0,
             old |-> <<>>]

Frame(fn, typ, idx, val) ==
    [fn |-> fn, typ |-> typ, idx |-> idx, val |-> val, phase |-> "dispatch",
     offset |-> 0, i |-> 0, size |-> 0, slice |-> <<>>, bytesRead |-> 0,
     tmp_r |-> 0, tmp_offset |-> 0, ret |-> <<>>, got |-> FALSE,
     old |-> <<>>,
     done |-> NoneDone]

Top(m) == m.stack[Len(m.stack)]

SetTop(m, f) == [m EXCEPT !.stack[Len(m.stack)] = f]

Push(m, f) == [m EXCEPT !.stack = Append(@, f)]

\* a function returns: its frame goes, and the caller finds the value v
\* in what it passed by reference.  The return of the outermost
\* emitReadStruct ends EmitReadStruct with a nil error.
Return(m, v) ==
    LET s == SubSeq(m.stack, 1, Len(m.stack) - 1)
    IN  IF s = <<>>
        THEN [m EXCEPT !.stack = s, !.dest = v, !.status = "ok"]
        ELSE [m EXCEPT !.stack =
                  [s EXCEPT ![Len(s)] = [@ EXCEPT !.ret = v, !.got = TRUE]]]

(***************************************************************************)
(* The methods of the destination types (user code called by reflection).  *)
(***************************************************************************)
VerifyName == <<"V", "e", "r", "i", "f", "y">>

\* the methods of *T
MethodNames(T) ==
    CASE T \in {"Lengthy", "Hidden", "PtrIf"} -> {<<"U">>}
      [] T \in {"FixedA", "WrongVerifier"} -> {VerifyName}
      [] T = "Hooked" -> {CheckName}
      [] OTHER -> {}

\* ptrtyp.MethodByName(name)
MethodByName(T, name) == name \in MethodNames(T)

\* meth.Func.Call: the kind and the value of the first result
CallMethod(T, name, val) ==
    CASE name = <<"U">> /\ name \in MethodNames(T) ->
            [kind |-> "bool", v |-> flag]
      [] T = "FixedA" /\ name = VerifyName ->
            [kind |-> "error", v |-> (val[1] # 1)]
      [] T = "Hooked" /\ name = CheckName ->
            [kind |-> "error", v |-> (val[1] = 2)]
      [] OTHER -> [kind |-> "none", v |-> FALSE]

Logged(m, T, name) ==
    [m EXCEPT !.log = Append(@, [meth |-> name, typ |-> T, off |-> m.offset,
                                 depth |-> m.depth])]

(***************************************************************************)
(* Reads.  Each returns the state after it and, as v, what it delivers.    *)
(***************************************************************************)
\* io.ReadFull through p.r, then p.offset += nbytes
EmitReadFull(m, nbytes) ==
    LET a == Avail(m.rs)
    IN  IF nbytes = 0 THEN [m |-> m, v |-> <<>>]
        ELSE IF a >= nbytes
        THEN [m |-> [m EXCEPT !.rs = Consume(@, nbytes),
                              !.offset = @ + nbytes],
              v |-> Peek(m.rs, nbytes)]
        ELSE [m |-> Raise([m EXCEPT !.rs = Consume(@, a)],
                          IF a = 0 THEN "EOF" ELSE "ErrUnexpectedEOF"),
              v |-> <<>>]

\* make([]byte, nbytes) and EmitReadFull
EmitReadNBytes(m, nbytes) ==
    IF nbytes < 0 THEN [m |-> Raise(m, "MakeSliceLen"), v |-> <<>>]
    ELSE EmitReadFull(m, nbytes)

EmitSkipNBytes(m, nbytes) == EmitReadNBytes(m, nbytes).m

\* buf.ReadFrom(p.r): everything up to the end of the reader
EmitReadAll(m) ==
    LET a == Avail(m.rs)
    IN  [m |-> [m EXCEPT !.rs = Consume(@, a), !.offset = @ + a],
         v |-> Peek(m.rs, a)]

\* a seeded fault: EmitReadFixedFast that forgets p.offset += size
EmitReadFixedFastKeepOffset(m, size) ==
    LET a == Avail(m.rs)
    IN  IF a >= size
        THEN [m |-> [m EXCEPT !.rs = Consume(@, size)], v |-> Peek(m.rs, size)]
        ELSE [m |-> Raise([m EXCEPT !.rs = Consume(@, a)], "ReadError"),
              v |-> <<>>]

\* binary.Read of size bytes, then p.offset += size
EmitReadFixedFast(m, size) ==
    LET a == Avail(m.rs)
    IN  IF a >= size
        THEN [m |-> [m EXCEPT !.rs = Consume(@, size), !.offset = @ + size],
              v |-> Peek(m.rs, size)]
        ELSE [m |-> Raise([m EXCEPT !.rs = Consume(@, a)], "ReadError"),
              v |-> <<>>]

(***************************************************************************)
(* Tags.                                                                   *)
(***************************************************************************)
DigitValue(c) ==
    CASE c = "0" -> 0 [] c = "1" -> 1 [] c = "2" -> 2 [] c = "3" -> 3
      [] c = "4" -> 4 [] c = "5" -> 5 [] c = "6" -> 6 [] c = "7" -> 7
      [] c = "8" -> 8 [] c = "9" -> 9 [] OTHER -> -1

RECURSIVE DecimalValue(_)
DecimalValue(s) ==
    IF s = <<>> THEN 0
    ELSE DigitValue(s[Len(s)]) + 10 * DecimalValue(SubSeq(s, 1, Len(s) - 1))

\* strconv.ParseUint(s, 0, 8) on a decimal literal: the value, or ok = FALSE
\* on a syntax or range error (the tags of the model carry no base prefix)
ParseUint(s) ==
    LET digits == \A k \in 1..Len(s) : DigitValue(s[k]) >= 0
        plain == Len(s) = 1 \/ s[1] # "0"
    IN  IF s # <<>> /\ digits /\ plain /\ Len(s) <= 3 /\ DecimalValue(s) <= 255
        THEN [ok |-> TRUE, v |-> DecimalValue(s)]
        ELSE [ok |-> FALSE, v |-> 0]

\* extractUint: an integer of any kind becomes a uint, anything else an error
extractUint(kind, v) ==
    IF kind \in {"int", "uint"} THEN [ok |-> TRUE, v |-> ToUint(v)]
    ELSE [ok |-> FALSE, v |-> 0]

\* the index of the field called name among the fields fs, 0 if there is none
IndexOfName(fs, name) ==
    IF \E j \in 1..Len(fs) : fs[j].name = name
    THEN CHOOSE j \in 1..Len(fs) : fs[j].name = name
    ELSE 0

\* ptrval.Elem().FieldByName(tagstr): the index of the field, 0 if there is none
FieldByName(T, name) == IndexOfName(TypeDef(T), name)

\* the end of parseRefTag: extractUint on the value the tag refers to
RefUint(m, kind, v) ==
    IF extractUint(kind, v).ok THEN [m |-> m, v |-> extractUint(kind, v).v]
    ELSE [m |-> Raise(m, "NotInteger"), v |-> 0]

\* the method branch of parseRefTag, on the result of the call
RefMethod(m, result) == RefUint(m, result.kind, result.v)

\* seeded fault: a tag that names no field is taken as 0
RefFieldOrZero(m, j, T, val) ==
    IF j # 0 THEN RefUint(m, TypeDef(T)[j].kind, val[j])
    ELSE [m |-> m, v |-> 0]

\* the field branch of parseRefTag, with j the index of the field found
RefField(m, j, T, val) ==
    IF j # 0 THEN RefUint(m, TypeDef(T)[j].kind, val[j])
    ELSE [m |-> Raise(m, "FieldNotFound"), v |-> 0]

\* parseRefTag: the uint a len, size or elemsize tag refers to, read from a
\* method of the enclosing record (a name ending in "()") or from a field
parseRefTag(m, tagstr, T, val) ==
    LET strlen == Len(tagstr)
        methodname == SubSeq(tagstr, 1, strlen - 2)
    IN  IF strlen > 2 /\ SubSeq(tagstr, strlen - 1, strlen) = <<"(", ")">>
        THEN IF MethodByName(T, methodname)
             THEN RefMethod(Logged(m, T, methodname),
                            CallMethod(T, methodname, val))
             ELSE [m |-> Raise(m, "MethodNotFound"), v |-> 0]
        ELSE RefField(m, FieldByName(T, tagstr), T, val)

\* a seeded fault: ifTagSatisfied that strips the "!" but never negates
ifTagSatisfiedNoNegate(m, fld, T, val) ==
    IF Len(fld.iff) > 0
    THEN LET negate == fld.iff[1] = "!"
             ifstr == IF negate THEN Tail(fld.iff) ELSE fld.iff
         IN  IF MethodByName(T, ifstr)
             THEN LET result == CallMethod(T, ifstr, val)
                      m1 == Logged(m, T, ifstr)
                  IN  IF result.kind # "bool"
                      THEN [m |-> Raise(m1, "TypeAssertion"), v |-> FALSE]
                      ELSE [m |-> m1, v |-> result.v]
             ELSE [m |-> Raise(m, "MethodNotFound"), v |-> FALSE]
    ELSE [m |-> m, v |-> TRUE]

\* ifTagSatisfied: v is FALSE when the if tag says to skip the field
ifTagSatisfied(m, fld, T, val) ==
    IF Len(fld.iff) > 0
    THEN LET negate == fld.iff[1] = "!"
             ifstr == IF negate THEN Tail(fld.iff) ELSE fld.iff
         IN  IF MethodByName(T, ifstr)
             THEN LET result == CallMethod(T, ifstr, val)
                      m1 == Logged(m, T, ifstr)
                  IN  IF result.kind # "bool"
                      THEN [m |-> Raise(m1, "TypeAssertion"), v |-> FALSE]
                      ELSE [m |-> m1, v |-> (negate # result.v)]
             ELSE [m |-> Raise(m, "MethodNotFound"), v |-> FALSE]
    ELSE [m |-> m, v |-> TRUE]

\* a seeded fault: calculatePadding without the test mod != 0
calculatePaddingNoTest(m, fld, offset0) ==
    IF Len(fld.pad) > 0
    THEN LET padding == ParseUint(fld.pad)
             nbytesRead == m.offset - offset0
         IN  IF ~padding.ok THEN [m |-> Raise(m, "InvalidPad"), v |-> 0]
             ELSE IF padding.v = 0
             THEN [m |-> Raise(m, "DivideByZero"), v |-> 0]
             ELSE [m |-> m, v |-> padding.v - (nbytesRead % padding.v)]
    ELSE [m |-> m, v |-> 0]

\* calculatePadding: the bytes to skip after a field that began at offset0
calculatePadding(m, fld, offset0) ==
    IF Len(fld.pad) > 0
    THEN LET padding == ParseUint(fld.pad)
             nbytesRead == m.offset - offset0
         IN  IF ~padding.ok THEN [m |-> Raise(m, "InvalidPad"), v |-> 0]
             ELSE IF padding.v = 0
             THEN [m |-> Raise(m, "DivideByZero"), v |-> 0]
             ELSE IF nbytesRead % padding.v # 0
             THEN [m |-> m, v |-> padding.v - (nbytesRead % padding.v)]
             ELSE [m |-> m, v |-> 0]
    ELSE [m |-> m, v |-> 0]

\* callVerify(methodName, data): the after hook of a field
callVerify(m, methodName, T, val) ==
    IF MethodByName(T, methodName)
    THEN LET retval == CallMethod(T, methodName, val)
             m1 == Logged(m, T, methodName)
         IN  IF retval.v THEN Raise(m1, "HookFailed") ELSE m1
    ELSE Raise(m, "MethodNotFound")

(***************************************************************************)
(* The walker.                                                             *)
(***************************************************************************)
\* the call emitReadStruct(&v) of a value v of type T, up to its field loop
CallStruct(m, T, v) ==
    LET m1 == [m EXCEPT !.depth = @ + 1]
    IN  IF T = "" THEN Raise(m1, "InvalidArgument")
        ELSE Push(m1, Frame("emitReadStruct", T, 1, v))

\* continue: on to the next field of the record of the top frame
NextField(m, how, start, mid) ==
    LET f == Top(m)
    IN  SetTop(m, [f EXCEPT !.idx = @ + 1, !.phase = "dispatch", !.got = FALSE,
                            !.done = [idx |-> f.idx, how |-> how,
                                      start |-> start, mid |-> mid,
                                      end |-> m.offset, old |-> f.old]])

\* fieldval.Set(v) and the like: v is stored in the current field of the
\* record of the top frame
SetField(m, v) ==
    LET f == Top(m) IN SetTop(m, [f EXCEPT !.val[f.idx] = v])

\* seeded fault: a size of 0 is walked like any other, through a reader
\* limited to 0 bytes
LimitedWalkAlways(r, elemT, v, T, rec) ==
    IF Panicking(r.m) THEN r.m
    ELSE CallStruct(
             Push([r.m EXCEPT !.rs = Append(@, LimLayer(ToInt(r.v)))],
                  [Frame("readFieldOfLimitedSize", T, Top(r.m).idx, rec)
                      EXCEPT !.size = ToInt(r.v), !.tmp_r = Len(r.m.rs)]),
             elemT, v)

\* readFieldOfLimitedSize once the tag is resolved to r: the walk of the
\* value through a reader limited to that many bytes
LimitedWalk(r, elemT, v, T, rec) ==
    LET size == ToInt(r.v)
    IN  IF Panicking(r.m) THEN r.m
        ELSE IF size = 0 THEN r.m
        ELSE CallStruct(
                 Push([r.m EXCEPT !.rs = Append(@, LimLayer(size))],
                      [Frame("readFieldOfLimitedSize", T, Top(r.m).idx, rec)
                          EXCEPT !.size = size, !.tmp_r = Len(r.m.rs)]),
                 elemT, v)

\* readFieldOfLimitedSize(tag, tagstr, val, ...) called from the top frame,
\* for the value v of struct type elemT, with the tags of record rec of type T
readFieldOfLimitedSize(m, tagstr, elemT, v, T, rec) ==
    IF Len(tagstr) = 0 THEN CallStruct(m, elemT, v)
    ELSE IF tagstr = Inf THEN Raise(m, "InfNotSlice")
    ELSE LimitedWalk(parseRefTag(m, tagstr, T, rec), elemT, v, T, rec)

\* the slice of n fixed-size elements decoded from what the read r delivered
SetFixedSlice(r, fld, n) ==
    IF Panicking(r.m) THEN r.m
    ELSE SetField(r.m, ReadSlice(fld, n, r.v, byteOrder))

\* readSliceOfLength up to its loop: a fixed-size slice is read at once
readSliceOfLength(m, fld, length, T, rec) ==
    IF SliceSize(fld, length) < 0
    THEN Push(m, [Frame("readSliceOfLength", T, Top(m).idx, rec)
                     EXCEPT !.slice = [k \in 1..length |-> ZeroElem(fld)],
                            !.size = length])
    ELSE SetFixedSlice(EmitReadFixedFast(m, SliceSize(fld, length)),
                       fld, length)

\* val.Interface().([]byte)
IsByteSlice(fld) == fld.elem = "" /\ fld.w = 1 /\ ~fld.signed

\* readSliceFromBytes up to its loop: a []byte takes the buffer as it is
readSliceFromBytes(m, fld, cur, buf, T, rec) ==
    IF IsByteSlice(fld) THEN SetField(m, buf)
    ELSE Push([m EXCEPT !.rs = Append(@, BufLayer(buf))],
              [Frame("readSliceFromBytes", T, Top(m).idx, rec)
                  EXCEPT !.tmp_r = Len(m.rs), !.tmp_offset = m.offset,
                         !.size = Len(buf), !.slice = cur])

\* seeded fault: a slice without tags is read as one element when it is
\* empty
ReadSliceAsIsOneAtLeast(m, fld, cur) ==
    IF SliceSize(fld, Len(cur)) < 0 THEN m
    ELSE SetFixedSlice(EmitReadFixedFast(m, SliceSize(fld, Max(Len(cur), 1))),
                       fld, Max(Len(cur), 1))

\* seeded fault: a slice whose size binary.Size cannot tell is an error
ReadSliceAsIsOrFail(m, fld, cur) ==
    IF SliceSize(fld, Len(cur)) < 0 THEN Raise(m, "UnhandledType")
    ELSE SetFixedSlice(EmitReadFixedFast(m, SliceSize(fld, Len(cur))),
                       fld, Len(cur))

\* EmitReadFixed(fieldval.Interface()) on a slice without len and size tag:
\* the elements the slice already has are read in place, and a slice of
\* elements without a fixed size is left alone without an error
ReadSliceAsIs(m, fld, cur) ==
    IF SliceSize(fld, Len(cur)) < 0 THEN m
    ELSE SetFixedSlice(EmitReadFixedFast(m, SliceSize(fld, Len(cur))),
                       fld, Len(cur))

\* the len branch of the slice case, with the tag resolved to r
SliceByLen(r, fld, T, rec) ==
    IF Panicking(r.m) THEN r.m
    ELSE IF ToInt(r.v) > 0
    THEN readSliceOfLength(r.m, fld, ToInt(r.v), T, rec)
    ELSE r.m

\* the end of the size branch: the bytes b.v are decoded when there are any
SliceFromBuf(b, fld, T, rec) ==
    IF Panicking(b.m) THEN b.m
    ELSE IF Len(b.v) > 0
    THEN readSliceFromBytes(b.m, fld, rec[Top(b.m).idx], b.v, T, rec)
    ELSE b.m

\* the size branch of the slice case, with the tag resolved to r
SliceBySize(r, fld, T, rec) ==
    IF Panicking(r.m) THEN r.m
    ELSE SliceFromBuf(EmitReadNBytes(r.m, ToInt(r.v)), fld, T, rec)

\* a seeded fault: the slice case without the check for conflicting tags
DispatchSliceNoConflict(m, fld, T, rec) ==
    IF Len(fld.len) > 0
    THEN SliceByLen(parseRefTag(m, fld.len, T, rec), fld, T, rec)
    ELSE IF Len(fld.size) > 0
    THEN IF fld.size = Inf THEN SliceFromBuf(EmitReadAll(m), fld, T, rec)
         ELSE SliceBySize(parseRefTag(m, fld.size, T, rec), fld, T, rec)
    ELSE ReadSliceAsIs(m, fld, rec[Top(m).idx])

\* the slice case of the switch on the field's kind
DispatchSlice(m, fld, T, rec) ==
    IF Len(fld.len) > 0 /\ Len(fld.size) > 0 THEN Raise(m, "ConflictingTags")
    ELSE IF Len(fld.len) > 0
    THEN SliceByLen(parseRefTag(m, fld.len, T, rec), fld, T, rec)
    ELSE IF Len(fld.size) > 0
    THEN IF fld.size = Inf THEN SliceFromBuf(EmitReadAll(m), fld, T, rec)
         ELSE SliceBySize(parseRefTag(m, fld.size, T, rec), fld, T, rec)
    ELSE ReadSliceAsIs(m, fld, rec[Top(m).idx])

\* the value of a fixed-size field decoded from what the read r delivered
SetFixedValue(r, fld) ==
    IF Panicking(r.m) THEN r.m
    ELSE SetField(r.m, ReadValue(fld, r.v, byteOrder))

\* the default case: EmitReadFixed(buildPtr(fieldval)) or "Unhandled type"
DispatchFixed(m, fld) ==
    IF FieldSize(fld) < 0 THEN Raise(m, "UnhandledType")
    ELSE SetFixedValue(EmitReadFixedFast(m, FieldSize(fld)), fld)

\* seeded fault: a pointer field is ignored like a func field
DispatchPtrIgnored(m, fld, T, rec) ==
    CASE fld.kind = "struct" ->
            readFieldOfLimitedSize(m, fld.size, fld.elem, rec[Top(m).idx], T, rec)
      [] fld.kind = "slice" -> DispatchSlice(m, fld, T, rec)
      [] fld.kind \in {"func", "ptr"} -> m
      [] fld.kind \in {"bool", "chan", "map", "string"} ->
            Raise(m, "TypeNotSupported")
      [] OTHER -> DispatchFixed(m, fld)

\* the switch on fieldval.Kind()
Dispatch(m, fld, T, rec) ==
    CASE fld.kind = "struct" ->
            readFieldOfLimitedSize(m, fld.size, fld.elem, rec[Top(m).idx], T, rec)
      [] fld.kind = "slice" -> DispatchSlice(m, fld, T, rec)
      [] fld.kind = "func" -> m
      [] fld.kind = "ptr" -> Raise(m, "PtrField")
      [] fld.kind \in {"bool", "chan", "map", "string"} ->
            Raise(m, "TypeNotSupported")
      [] OTHER -> DispatchFixed(m, fld)

\* the value of the current field is kept for the properties
Old(m) == LET f == Top(m) IN SetTop(m, [f EXCEPT !.old = f.val[f.idx]])

\* seeded fault: the unexported check comes before the test of the if tag
FieldCheckedUnexportedFirst(m, f, fld, c) ==
    IF Panicking(c.m) THEN c.m
    ELSE IF Unexported(fld)
    THEN IF strict THEN Raise(c.m, "Unexported")
         ELSE NextField(Old(c.m), "unexported", m.offset, m.offset)
    ELSE IF ~c.v THEN NextField(Old(c.m), "if", m.offset, m.offset)
    ELSE Dispatch(SetTop(c.m, [f EXCEPT !.offset = c.m.offset,
                                        !.phase = "padding",
                                        !.got = FALSE,
                                        !.old = f.val[f.idx]]),
                  fld, f.typ, f.val)

\* the pass once the if tag is evaluated to c: the unexported check, the
\* remembered offset and the dispatch on the kind
FieldChecked(m, f, fld, c) ==
    IF Panicking(c.m) THEN c.m
    ELSE IF ~c.v THEN NextField(Old(c.m), "if", m.offset, m.offset)
    ELSE IF Unexported(fld)
    THEN IF strict THEN Raise(c.m, "Unexported")
         ELSE NextField(Old(c.m), "unexported", m.offset, m.offset)
    ELSE Dispatch(SetTop(c.m, [f EXCEPT !.offset = c.m.offset,
                                        !.phase = "padding",
                                        !.got = FALSE,
                                        !.old = f.val[f.idx]]),
                  fld, f.typ, f.val)

\* one pass of the field loop on field fld of the record of frame f
FieldPass(m, f, fld) ==
    FieldChecked(m, f, fld, ifTagSatisfied(m, fld, f.typ, f.val))

\* one pass of the field loop up to the end of the switch: the if tag, the
\* unexported check, the remembered offset and the dispatch on the kind
FieldDispatchStep(m) ==
    FieldPass(m, Top(m), TypeDef(Top(m).typ)[Top(m).idx])

\* what a callee wrote through the pointer it was given is in the field
Settled(m) ==
    LET f == Top(m)
    IN  IF f.got
        THEN SetTop(m, [f EXCEPT !.val[f.idx] = f.ret, !.got = FALSE])
        ELSE m

\* EmitSkipNBytes(padding) when calculatePadding gave p.v > 0
SkipPadding(p) ==
    IF Panicking(p.m) THEN p.m
    ELSE IF p.v > 0 THEN EmitSkipNBytes(p.m, p.v)
    ELSE p.m

\* seeded fault: the after hook is called although an error was raised
AfterHookAlways(m, fld) ==
    IF Len(fld.after) > 0
    THEN [callVerify(m, fld.after, Top(m).typ, Top(m).val)
             EXCEPT !.status = IF Panicking(m) THEN "panicking" ELSE @,
                    !.err = IF Panicking(m) THEN m.err ELSE @]
    ELSE m

\* the after hook of field fld, called on the record of the top frame
AfterHook(m, fld) ==
    IF Panicking(m) THEN m
    ELSE IF Len(fld.after) > 0
    THEN callVerify(m, fld.after, Top(m).typ, Top(m).val)
    ELSE m

\* the end of the pass, where mid was p.offset before the padding
EndPass(m, mid) ==
    IF Panicking(m) THEN m
    ELSE NextField(m, "decoded", Top(m).offset, mid)

\* seeded fault: the after hook is called before the padding is skipped
FinishFieldHookFirst(m, fld) ==
    EndPass(SkipPadding(calculatePadding(AfterHook(m, fld), fld,
                                         Top(m).offset)),
            m.offset)

\* the padding bytes and the after hook of field fld
FinishField(m, fld) ==
    EndPass(AfterHook(SkipPadding(
                calculatePadding(m, fld, Top(m).offset)), fld),
            m.offset)

\* the rest of the pass: the padding bytes and the after hook
FieldFinishStep(m) ==
    FinishField(Settled(m), TypeDef(Top(m).typ)[Top(m).idx])

\* the end of emitReadStruct
StructReturnStep(m) ==
    Return([m EXCEPT !.depth = @ - 1], Top(m).val)

\* the element the callee filled is in the slice, and the loop counts on
SettledElem(m) ==
    LET f == Top(m)
    IN  IF f.got
        THEN SetTop(m, [f EXCEPT !.slice[f.i + 1] = f.ret, !.i = @ + 1,
                                 !.got = FALSE])
        ELSE m

\* after readFieldOfLimitedSize on one element gave r: when it returned at
\* once (n frames as before), the loop counts on
ElemRead(r, n) ==
    IF Panicking(r) THEN r
    ELSE IF Len(r.stack) = n THEN SetTop(r, [Top(r) EXCEPT !.i = @ + 1])
    ELSE r

\* seeded fault: the loop of readSliceOfLength stops before the last element
SliceLoopShort(m, fld) ==
    LET f == Top(m)
    IN  IF f.i + 1 < f.size
        THEN ElemRead(readFieldOfLimitedSize(m, fld.elemsize, fld.elem,
                                             f.slice[f.i + 1], f.typ, f.val),
                      Len(m.stack))
        ELSE Return(m, f.slice)

\* the loop of readSliceOfLength over the elements of slice field fld
SliceLoop(m, fld) ==
    LET f == Top(m)
    IN  IF f.i < f.size
        THEN ElemRead(readFieldOfLimitedSize(m, fld.elemsize, fld.elem,
                                             f.slice[f.i + 1], f.typ, f.val),
                      Len(m.stack))
        ELSE Return(m, f.slice)

\* one pass of the loop of readSliceOfLength, or its end
SliceOfLengthStep(m) ==
    SliceLoop(SettledElem(m), TypeDef(Top(m).typ)[Top(m).idx])

\* seeded fault: the end of readFieldOfLimitedSize without the test of what
\* is left of the limit
LimitedSizeReturnNoTest(m) ==
    Return([m EXCEPT !.rs = SubSeq(@, 1, Top(m).tmp_r)], Top(m).ret)

\* the end of readFieldOfLimitedSize, after the bounded walk returned
LimitedSizeReturnStep(m) ==
    LET f == Top(m)
    IN  IF m.rs[Len(m.rs)].n # 0 THEN Raise(m, "LimitedSizeMismatch")
        ELSE Return([m EXCEPT !.rs = SubSeq(@, 1, f.tmp_r)], f.ret)

\* the longest slice the model keeps: a slice that reflect.Append makes
\* longer than this is kept at this length.  The slices of a decode whose
\* elements each take a byte of the source are shorter.
MaxElems == MaxInput + 2

\* one pass of the loop of readSliceFromBytes, or its end
SliceFromBytesStep(m) ==
    LET f0 == Top(m)
        f == IF f0.got
             THEN [f0 EXCEPT !.slice = IF Len(@) < MaxElems
                                       THEN Append(@, f0.ret) ELSE @,
                             !.bytesRead = @ + (m.offset - f0.offset),
                             !.got = FALSE]
             ELSE f0
        fld == TypeDef(f.typ)[f.idx]
    IN  IF f.bytesRead < f.size
        THEN CallStruct(SetTop(m, [f EXCEPT !.offset = m.offset]),
                        fld.elem, ZeroElem(fld))
        ELSE IF f.bytesRead # f.size
        THEN Raise(SetTop(m, f), "SizeConsistency")
        ELSE Return([SetTop(m, f) EXCEPT !.rs = SubSeq(@, 1, f.tmp_r),
                                         !.offset = f.tmp_offset],
                    f.slice)

(***************************************************************************)
(* The specification: NewParser, then one EmitReadStruct call.             *)
(***************************************************************************)
Inputs == UNION {[1..n -> ByteVals] : n \in 0..MaxInput}

RECURSIVE HasWideInt(_)
HasWideInt(T) ==
    \E i \in 1..NumField(T) :
        LET fld == TypeDef(T)[i]
        IN  \/ fld.w > 1
            \/ fld.elem # "" /\ HasWideInt(fld.elem)

HasUnexported(T) == \E i \in 1..NumField(T) : Unexported(TypeDef(T)[i])

UsesFlag(T) == <<"U">> \in MethodNames(T)

\* a destination that an earlier use left filled: every integer is 2 and
\* every slice holds one element
RECURSIVE Prefilled(_)
PrefilledValue(fld) ==
    CASE fld.kind = "slice" ->
            <<IF fld.elem = "" THEN 2 ELSE Prefilled(fld.elem)>>
      [] fld.kind = "struct" -> Prefilled(fld.elem)
      [] fld.kind = "int" -> 2
      [] OTHER -> ZeroValue(fld)

Prefilled(T) == [i \in 1..NumField(T) |-> PrefilledValue(TypeDef(T)[i])]

\* NewParser(r, byteOrder, options) and a destination.  An option that the
\* walk of the type never reads keeps its default.
Init ==
    /\ top \in TopTypes
    /\ input \in Inputs
    /\ byteOrder \in (IF HasWideInt(top) THEN {"little", "big"} ELSE {"little"})
    /\ strict \in (IF HasUnexported(top) THEN BOOLEAN ELSE {FALSE})
    /\ panicky \in BOOLEAN
    /\ flag \in (IF UsesFlag(top) THEN BOOLEAN ELSE {FALSE})
    /\ rs = <<BufLayer(input)>>
    /\ offset = 0
    /\ depth = 0
    /\ stack = <<>>
    /\ dest \in {ZeroRecord(top), Prefilled(top)}
    /\ err = "nil"
    /\ status = "ready"
    /\ log = <<>>

Running(fn) ==
    /\ status = "running"
    /\ stack # <<>>
    /\ stack[Len(stack)].fn = fn

\* EmitReadStruct(data): p.context = data, and emitReadStruct is entered
EmitReadStruct ==
    /\ status = "ready"
    /\ Commit(CallStruct([Cur EXCEPT !.status = "running"], top, dest))

FieldDispatch ==
    /\ Running("emitReadStruct")
    /\ stack[Len(stack)].phase = "dispatch"
    /\ stack[Len(stack)].idx <= NumField(stack[Len(stack)].typ)
    /\ Commit(FieldDispatchStep(Cur))

FieldFinish ==
    /\ Running("emitReadStruct")
    /\ stack[Len(stack)].phase = "padding"
    /\ Commit(FieldFinishStep(Cur))

StructReturn ==
    /\ Running("emitReadStruct")
    /\ stack[Len(stack)].phase = "dispatch"
    /\ stack[Len(stack)].idx > NumField(stack[Len(stack)].typ)
    /\ Commit(StructReturnStep(Cur))

SliceOfLength ==
    /\ Running("readSliceOfLength")
    /\ Commit(SliceOfLengthStep(Cur))

LimitedSizeReturn ==
    /\ Running("readFieldOfLimitedSize")
    /\ Commit(LimitedSizeReturnStep(Cur))

SliceFromBytes ==
    /\ Running("readSliceFromBytes")
    /\ Commit(SliceFromBytesStep(Cur))

\* seeded fault: the deferred function is installed in panicky mode too
RecoverStepAlways(m) ==
    [m EXCEPT !.stack = <<>>,
              !.status = IF m.err \in RuntimeErrors THEN "fault" ELSE "error"]

\* the deferred function of EmitReadStruct: a panic becomes the returned
\* error, unless the parser is panicky or the value is a runtime.Error
RecoverStep(m) ==
    [m EXCEPT !.stack = <<>>,
              !.status = IF panicky \/ m.err \in RuntimeErrors
                         THEN "fault" ELSE "error"]

Recover ==
    /\ status = "panicking"
    /\ Commit(RecoverStep(Cur))

Next ==
    \/ EmitReadStruct
    \/ FieldDispatch
    \/ FieldFinish
    \/ StructReturn
    \/ SliceOfLength
    \/ LimitedSizeReturn
    \/ SliceFromBytes
    \/ Recover

Spec == Init /\ [][Next]_vars

(***************************************************************************)
(* Properties.  TopFrame is the frame EmitReadStruct's walk is in, FieldOf  *)
(* the field a frame works on, Region the last k bytes the reader          *)
(* delivered, RefValue the signed value of the field a len or size tag     *)
(* names.                                                                  *)
(***************************************************************************)
TopFrame == stack[Len(stack)]

FieldOf(f) == TypeDef(f.typ)[f.idx]

Region(k) ==
    LET b == rs[BaseIdx(rs)] IN SubSeq(b.data, b.pos - k + 1, b.pos)

RefValue(f, tagstr) == f.val[IndexOfName(TypeDef(f.typ), tagstr)]

\* the frame is past the dispatch of its current field, before the padding
AtPadding(f) == f.fn = "emitReadStruct" /\ f.phase = "padding"

\* the frame has just finished the pass of the field recorded in f.done
AfterPass(f) ==
    /\ f.fn = "emitReadStruct"
    /\ f.phase = "dispatch"
    /\ f.done.idx > 0
    /\ offset = f.done.end

\* the Str records {L uint8; C []uint8 len:"L"} laid out one after the other
\* in bs
RECURSIVE StrsOf(_)
StrsOf(bs) ==
    IF bs = <<>> THEN <<>>
    ELSE <<<<bs[1], SubSeq(bs, 2, 1 + bs[1])>>>>
             \o StrsOf(SubSeq(bs, 2 + bs[1], Len(bs)))

C2_LenSliceFixed ==
    (status = "running" /\ stack # <<>> /\ AtPadding(TopFrame)) =>
        LET f == TopFrame
            fld == FieldOf(f)
            w == ElemSize(fld)
            n == RefValue(f, fld.len)
            bytes == Region(n * w)
            Piece(i) == SubSeq(bytes, (i - 1) * w + 1, i * w)
        IN  (/\ fld.kind = "slice"
             /\ Len(fld.len) > 0
             /\ Len(fld.size) = 0
             /\ w >= 0
             /\ n > 0) =>
                /\ offset - f.offset = n * w
                /\ Len(f.val[f.idx]) = n
                /\ Len(bytes) = n * w
                /\ \A i \in 1..n :
                      f.val[f.idx][i] =
                          IF fld.elem = ""
                          THEN DecodeInt(Piece(i), byteOrder, fld.signed)
                          ELSE ReadRecord(fld.elem, Piece(i), byteOrder)

\* C2 happens: two different bytes were read into D, in stream order
C2_Witness ==
    /\ status = "running"
    /\ stack # <<>>
    /\ AtPadding(TopFrame)
    /\ TopFrame.typ = "SliceByte"
    /\ TopFrame.idx = 2
    /\ TopFrame.val[2] = <<1, 255>>
    /\ TopFrame.offset = 1
    /\ offset = 3

\* C3: after the dispatch of a slice field whose len tag resolves to 0,
\* Offset() is what it was before the dispatch and the slice is empty
C3_LenZeroEmpty ==
    (status = "running" /\ stack # <<>> /\ AtPadding(TopFrame)) =>
        LET f == TopFrame
            fld == FieldOf(f)
        IN  (/\ fld.kind = "slice"
             /\ Len(fld.len) > 0
             /\ Len(fld.size) = 0
             /\ RefValue(f, fld.len) = 0) =>
                /\ offset = f.offset
                /\ f.val[f.idx] = <<>>

\* C4: when readSliceFromBytes has returned for a slice of Str records whose
\* size tag resolves to m > 0, Offset() is m more than before the field and
\* the slice holds exactly the records laid out in the m bytes, in order
C4_SizeSliceElements ==
    (status = "running" /\ stack # <<>> /\ AtPadding(TopFrame)) =>
        LET f == TopFrame
            fld == FieldOf(f)
            size == RefValue(f, fld.size)
        IN  (/\ fld.kind = "slice"
             /\ Len(fld.size) > 0
             /\ Len(fld.len) = 0
             /\ fld.elem = "Str"
             /\ f.got) =>
                /\ size > 0
                /\ offset = f.offset + size
                /\ f.ret = StrsOf(Region(size))

\* C5: when the walk of an element of a size-driven slice fails because the
\* element needs bytes beyond the region, the error is the consistency error
\* of readSliceFromBytes
C5_SizeMismatch ==
    (/\ status = "panicking"
     /\ \E k \in 1..Len(stack) : stack[k].fn = "readSliceFromBytes"
     /\ BaseIdx(rs) > 1
     /\ rs[BaseIdx(rs)].pos = Len(rs[BaseIdx(rs)].data)
     /\ err \in {"ReadError", "EOF", "ErrUnexpectedEOF", "SizeConsistency"})
        => err = "SizeConsistency"

\* C6: a field with pad tag k >= 1 whose dispatch consumed c bytes is
\* followed by exactly (k - c mod k) mod k discarded bytes, so that the field
\* consumed a multiple of k in total
C6_Padding ==
    (status = "running" /\ stack # <<>>
        /\ AfterPass(TopFrame) /\ TopFrame.done.how = "decoded") =>
        LET d == TopFrame.done
            fld == TypeDef(TopFrame.typ)[d.idx]
            k == DecimalValue(fld.pad)
            c == d.mid - d.start
        IN  (/\ Len(fld.pad) > 0
             /\ \A j \in 1..Len(fld.pad) : DigitValue(fld.pad[j]) >= 0
             /\ k >= 1) =>
                /\ d.end - d.mid = (k - (c % k)) % k
                /\ (d.end - d.start) % k = 0
                /\ rs[BaseIdx(rs)].pos >= d.end - d.start

\* C6 happens: a field padded to 3 consumed one byte and two more were
\* discarded
C6_Witness ==
    /\ status = "running"
    /\ stack # <<>>
    /\ AfterPass(TopFrame)
    /\ TopFrame.typ = "Pad3"
    /\ TopFrame.done.how = "decoded"
    /\ TopFrame.done.idx = 2
    /\ TopFrame.done.mid - TopFrame.done.start = 1
    /\ TopFrame.done.end - TopFrame.done.mid = 2

\* C7: a field with an if tag naming an existing boolean method is skipped,
\* its value unchanged and no byte consumed, when the method's result equals
\* the tag's negation; otherwise it is handled like a field without the
\* tag: decoded from its own bytes or, when unexported, passed over
C7_IfTag ==
    (status = "running" /\ stack # <<>> /\ AfterPass(TopFrame)) =>
        LET f == TopFrame
            d == f.done
            fld == TypeDef(f.typ)[d.idx]
            negate == fld.iff[1] = "!"
            name == IF negate THEN Tail(fld.iff) ELSE fld.iff
            size == FieldSize(fld)
        IN  (Len(fld.iff) > 0 /\ MethodByName(f.typ, name)) =>
                IF CallMethod(f.typ, name, f.val).v = negate
                THEN /\ d.how = "if"
                     /\ d.end = d.start
                     /\ f.val[d.idx] = d.old
                ELSE IF Unexported(fld)
                THEN /\ d.how = "unexported"
                     /\ d.end = d.start
                ELSE /\ d.how = "decoded"
                     /\ d.mid - d.start = size
                     /\ d.end = d.start + size
                     /\ f.val[d.idx] = ReadValue(fld, Region(size), byteOrder)

\* C7 happens: with U returning true, S was decoded as -1 and the negated G
\* was skipped and kept the 2 it held
C7_Witness ==
    /\ status = "running"
    /\ stack # <<>>
    /\ AfterPass(TopFrame)
    /\ TopFrame.typ = "Lengthy"
    /\ flag
    /\ TopFrame.done.idx = 2
    /\ TopFrame.done.how = "if"
    /\ TopFrame.val[1] = -1
    /\ TopFrame.val[2] = 2
    /\ offset = 1

\* C8 as stated: the walk never gets past the dispatch of a field, slice or
\* nested record, that carries both a len and a size tag: it fails there
\* with the conflicting-tags error and Offset() as before the field
C8_ConflictAnyField ==
    (status \in {"running", "panicking"}) =>
        \A k \in 1..Len(stack) :
            (/\ AtPadding(stack[k])
             /\ Len(FieldOf(stack[k]).len) > 0
             /\ Len(FieldOf(stack[k]).size) > 0) =>
                /\ status = "panicking"
                /\ err = "ConflictingTags"
                /\ offset = stack[k].offset

\* C8 amended: a slice field that carries both a len and a size tag makes the
\* decode fail with the conflicting-tags error before a byte of the field is
\* read; a nested-record field with both tags never raises that error
C8_ConflictSliceOnly ==
    (status \in {"running", "panicking"}) =>
        \A k \in 1..Len(stack) :
            (/\ AtPadding(stack[k])
             /\ Len(FieldOf(stack[k]).len) > 0
             /\ Len(FieldOf(stack[k]).size) > 0) =>
                IF FieldOf(stack[k]).kind = "slice"
                THEN /\ status = "panicking"
                     /\ err = "ConflictingTags"
                     /\ k = Len(stack)
                     /\ offset = stack[k].offset
                     /\ rs[BaseIdx(rs)].pos = offset
                ELSE err # "ConflictingTags"

\* C8 happens: the decode of ConflictSlice failed at D, after L and Z
C8_Witness ==
    /\ status = "panicking"
    /\ err = "ConflictingTags"
    /\ top = "ConflictSlice"
    /\ TopFrame.idx = 3
    /\ offset = 2
    /\ TopFrame.val[1] = 1

\* C9: with a parser that is not panicky, no call of EmitReadStruct ends in
\* a panic that leaves it
C9_NoFaultByDefault == ~panicky => status # "fault"

\* C10: when EmitReadStruct returned without error for a record whose type
\* has a Verify method, that method was called exactly once, for the record,
\* after all its fields
C10_VerifyOnce ==
    (status = "ok" /\ VerifyName \in MethodNames(top)) =>
        /\ Cardinality({i \in 1..Len(log) : log[i].meth = VerifyName}) = 1
        /\ log[Len(log)].meth = VerifyName
        /\ log[Len(log)].off = offset

\* C11: a record whose type has a Verify method of another signature than
\* Verify(*Parser) error is never decoded: EmitReadStruct returns an error
\* for it, with Offset() still 0
C11_VerifySignature ==
    (top = "WrongVerifier" /\ status \notin {"ready", "running"}) =>
        /\ status = "error"
        /\ offset = 0

\* the frame is a call of readFieldOfLimitedSize made for a nested-record
\* field with a size tag
SizedRecordCall(k) ==
    /\ k > 1
    /\ stack[k].fn = "readFieldOfLimitedSize"
    /\ stack[k - 1].fn = "emitReadStruct"
    /\ FieldOf(stack[k - 1]).kind = "struct"

\* C12: a nested-record field with a size tag naming a field of value m > 0
\* is past its dispatch only when the walk of the nested record consumed
\* exactly m bytes, so that Offset() advanced by m before the padding; and
\* while the nested record is walked, the bytes taken from the source for it
\* are those the limited view delivered, never more than m
C12_SizedRecord ==
    /\ (/\ status = "running"
        /\ stack # <<>>
        /\ AtPadding(TopFrame)
        /\ FieldOf(TopFrame).kind = "struct"
        /\ IndexOfName(TypeDef(TopFrame.typ), FieldOf(TopFrame).size) > 0
        /\ ToInt(RefValue(TopFrame, FieldOf(TopFrame).size)) > 0) =>
            /\ TopFrame.got
            /\ offset - TopFrame.offset =
                   ToInt(RefValue(TopFrame, FieldOf(TopFrame).size))
            /\ rs[1].pos = offset
    /\ \A k \in 1..Len(stack) :
           SizedRecordCall(k) =>
               /\ stack[k].size =
                      ToInt(RefValue(stack[k - 1], FieldOf(stack[k - 1]).size))
               /\ rs[stack[k].tmp_r + 1].kind = "lim"
               /\ rs[stack[k].tmp_r + 1].n >= 0
               /\ rs[stack[k].tmp_r + 1].n <= stack[k].size
               /\ (\A j \in 1..Len(stack) :
                       stack[j].fn # "readSliceFromBytes") =>
                      rs[1].pos - stack[k - 1].offset =
                          stack[k].size - rs[stack[k].tmp_r + 1].n

C12_Witness ==
    /\ status = "running"
    /\ stack # <<>>
    /\ top = "SizedNested"
    /\ AtPadding(TopFrame)
    /\ TopFrame.idx = 2
    /\ TopFrame.val[1] = 2
    /\ TopFrame.ret = <<1, <<255>>>>
    /\ offset = 3

\* C13: at every point of a decode that has not failed, Offset() is the
\* number of bytes taken so far from the source the parser was made for
C13_OffsetIsConsumed ==
    status \in {"ready", "running", "ok"} => offset = rs[1].pos

\* C14: when EmitReadStruct has returned, with or without an error, the
\* reader of the parser is the one it was made with: no limited view and no
\* reader over a region is left in its place
C14_ReaderRestored ==
    status \in {"ok", "error"} => Len(rs) = 1

\* the errors a step of the field loop raises before it reads any byte
SchemaErrors ==
    {"Unexported", "PtrField", "TypeNotSupported", "ConflictingTags",
     "FieldNotFound", "MethodNotFound", "NotInteger", "InfNotSlice",
     "UnhandledType"}

\* the errors of a read that the source cannot serve
ReadErrors == {"ReadError", "EOF", "ErrUnexpectedEOF"}

\* a step that raises an error
Raising == status = "running" /\ status' = "panicking"

\* C15: once an error is raised with RaiseError or RaiseError2, at any
\* depth, nothing else happens: the step that raises it reads no byte and
\* calls no method after the raise (a failed read of the padding is not
\* followed by the after hook, a schema error found at the dispatch of a
\* field leaves the reader and Offset() as they were), the only step that
\* follows is the recover of EmitReadStruct, which decodes no field, calls
\* no method and reads no byte, and unless the parser is panicky
\* EmitReadStruct returns that error
C15_StopsAtFirstError ==
    [][/\ (status = "panicking" /\ err \notin RuntimeErrors) =>
              /\ status' = IF panicky THEN "fault" ELSE "error"
              /\ stack' = <<>>
              /\ UNCHANGED <<err, offset, rs, log, dest>>
       /\ (Raising /\ AtPadding(TopFrame)
                   /\ err' \in ReadErrors \cup {"InvalidPad"}) =>
              /\ log' = log
              /\ dest' = dest
       /\ (Raising /\ TopFrame.fn = "emitReadStruct"
                   /\ TopFrame.phase = "dispatch"
                   /\ err' \in SchemaErrors) =>
              /\ offset' = offset
              /\ rs' = rs
              /\ dest' = dest
       /\ status \in {"ok", "error", "fault"} => UNCHANGED vars]_vars

C15_Witness ==
    /\ status = "error"
    /\ ~panicky
    /\ top = "HookedOuter"
    /\ depth = 2
    /\ err = "EOF"
    /\ offset = 2
    /\ log = <<>>

\* the calls of method meth of type T in the log
CallsOf(meth, T) ==
    {i \in 1..Len(log) : log[i].meth = meth /\ log[i].typ = T}

\* C16: when the pass of a decoded field with an after tag is over, the
\* method the tag names was called once on the enclosing record, as the last
\* call made, at the Offset() reached after the bytes and the padding of the
\* field, and it returned nil; a decode in which a hook returned an error,
\* in the top record or in a nested one, does not continue and does not end
\* without error
C16_AfterHook ==
    /\ (status = "running" /\ stack # <<>> /\ AfterPass(TopFrame)
            /\ TopFrame.done.how = "decoded"
            /\ Len(TypeDef(TopFrame.typ)[TopFrame.done.idx].after) > 0) =>
           LET d == TopFrame.done
               fld == TypeDef(TopFrame.typ)[d.idx]
           IN  /\ log # <<>>
               /\ log[Len(log)] = [meth |-> fld.after, typ |-> TopFrame.typ,
                                   off |-> d.end, depth |-> depth]
               /\ d.end >= d.mid
               /\ Len(fld.pad) > 0 =>
                      (d.end - d.start) % DecimalValue(fld.pad) = 0
               /\ Cardinality(CallsOf(fld.after, TopFrame.typ)) = 1
               /\ ~CallMethod(TopFrame.typ, fld.after, TopFrame.val).v
    /\ (status = "ok" /\ top = "Hooked") =>
           /\ ~CallMethod("Hooked", CheckName, dest).v
           /\ Cardinality(CallsOf(CheckName, "Hooked")) = 1
    /\ (status = "ok" /\ top = "HookedOuter") =>
           /\ ~CallMethod("Hooked", CheckName, dest[1]).v
           /\ Cardinality(CallsOf(CheckName, "Hooked")) = 1
    /\ (err = "HookFailed") =>
           /\ status \in {"panicking", "error", "fault"}
           /\ log # <<>>
           /\ log[Len(log)].off = offset

C16_Witness ==
    /\ status = "running"
    /\ stack # <<>>
    /\ top = "HookedOuter"
    /\ AfterPass(TopFrame)
    /\ TopFrame.typ = "Hooked"
    /\ TopFrame.done.idx = 2
    /\ TopFrame.done.mid = 2
    /\ offset = 3
    /\ log = <<[meth |-> CheckName, typ |-> "Hooked", off |-> 3, depth |-> 2]>>

\* the tag names a method: a name followed by "()"
IsMethodRef(tagstr) ==
    /\ Len(tagstr) > 2
    /\ SubSeq(tagstr, Len(tagstr) - 1, Len(tagstr)) = <<"(", ")">>

\* tag tagstr on a field of record type T names a method (a name ending in
\* "()") that T does not have, or a field that T does not have
BadRef(T, tagstr) ==
    /\ Len(tagstr) > 0
    /\ tagstr # Inf
    /\ IF IsMethodRef(tagstr)
       THEN SubSeq(tagstr, 1, Len(tagstr) - 2) \notin MethodNames(T)
       ELSE \A j \in 1..NumField(T) : TypeDef(T)[j].name # tagstr

\* the len or size tag that the dispatch of field fld resolves names nothing
HasBadRef(T, fld) ==
    \/ fld.kind = "struct" /\ BadRef(T, fld.size)
    \/ fld.kind = "slice" /\ Len(fld.size) = 0 /\ BadRef(T, fld.len)
    \/ fld.kind = "slice" /\ Len(fld.len) = 0 /\ BadRef(T, fld.size)

BadRefTypes == {"BadLenField", "BadLenMethod", "BadSizeField", "BadSizeStruct"}

\* C17: the dispatch of a field whose len or size tag names a field or a
\* method that the record does not have raises the error of the missing
\* field or method, with the reader and Offset() where the fields before it
\* left them; EmitReadStruct then ends with that error
C17_MissingRef ==
    /\ (stack # <<>> /\ TopFrame.fn = "emitReadStruct"
            /\ TopFrame.phase = "padding"
            /\ HasBadRef(TopFrame.typ, FieldOf(TopFrame))) =>
           /\ status = "panicking"
           /\ err = IF IsMethodRef(FieldOf(TopFrame).len
                                        \o FieldOf(TopFrame).size)
                    THEN "MethodNotFound" ELSE "FieldNotFound"
           /\ offset = TopFrame.offset
           /\ rs[1].pos = offset
           /\ Len(rs) = 1
           /\ log = <<>>
    /\ (top \in BadRefTypes /\ Len(input) >= 1
            /\ status \notin {"ready", "running", "panicking"}) =>
           /\ status = IF panicky THEN "fault" ELSE "error"
           /\ err = IF top \in {"BadLenField", "BadSizeField"}
                    THEN "FieldNotFound" ELSE "MethodNotFound"
           /\ offset = 1
           /\ rs = <<[BufLayer(input) EXCEPT !.pos = 1]>>

C17_Witness ==
    /\ top = "BadLenMethod"
    /\ status = "error"
    /\ err = "MethodNotFound"
    /\ offset = 1
    /\ input = <<2, 1, 1>>

\* the if tag of field fld of the record of frame f, if it has one, does not
\* say skip
NotSkipped(f, fld) ==
    \/ Len(fld.iff) = 0
    \/ LET negate == fld.iff[1] = "!"
           name == IF negate THEN Tail(fld.iff) ELSE fld.iff
       IN  CallMethod(f.typ, name, f.val).v # negate

PtrTypes == {"PtrPlain", "PtrIf", "PtrHidden"}

\* C19 as stated: a record with a pointer field, read from a source long
\* enough for the fields before it, never decodes: EmitReadStruct ends with
\* a schema error, whatever the tags of the field and the mode, and Offset()
\* is where the fields before the pointer left it
C19_PtrAlwaysFails ==
    (top \in PtrTypes /\ Len(input) >= 1
        /\ status \notin {"ready", "running", "panicking"}) =>
        /\ status # "ok"
        /\ err \in SchemaErrors
        /\ offset = 1

\* C19 amended: a pointer field that is dispatched (its if tag does not skip
\* it and it is exported) raises the
\* error of pointer fields whatever len, size, pad and after tags it
\* carries, with no byte consumed and no method called for it; a pointer
\* field is never decoded, and one that its if tag skips, or that is
\* unexported in lenient mode, is passed over without error
C19_PtrDispatched ==
    /\ (stack # <<>> /\ TopFrame.fn = "emitReadStruct"
            /\ TopFrame.phase = "padding"
            /\ FieldOf(TopFrame).kind = "ptr") =>
           /\ status = "panicking"
           /\ err = "PtrField"
           /\ NotSkipped(TopFrame, FieldOf(TopFrame))
           /\ ~Unexported(FieldOf(TopFrame))
           /\ offset = TopFrame.offset
           /\ rs[1].pos = offset
           /\ CallsOf(CheckName, TopFrame.typ) = {}
    /\ (status = "running" /\ stack # <<>> /\ AfterPass(TopFrame)
            /\ TypeDef(TopFrame.typ)[TopFrame.done.idx].kind = "ptr") =>
           LET d == TopFrame.done
               fld == TypeDef(TopFrame.typ)[d.idx]
           IN  /\ d.end = d.start
               /\ err = "nil"
               /\ IF NotSkipped(TopFrame, fld)
                  THEN d.how = "unexported" /\ Unexported(fld) /\ ~strict
                  ELSE d.how = "if"
    /\ (top \in PtrTypes /\ Len(input) >= 1
            /\ status \notin {"ready", "running", "panicking"}) =>
           /\ offset = 1
           /\ CASE top = "PtrPlain" \/ (top = "PtrIf" /\ flag) ->
                      status # "ok" /\ err = "PtrField"
                [] top = "PtrHidden" /\ strict ->
                      status # "ok" /\ err = "Unexported"
                [] OTHER -> status = "ok" /\ err = "nil"

C19_Witness ==
    /\ top = "PtrPlain"
    /\ status = "error"
    /\ err = "PtrField"
    /\ offset = 1
    /\ input = <<2, 0, 0>>
    /\ log = <<>>

BareTypes == {"BareSlice", "BareInt", "BareVar"}

\* the top frame is past the dispatch of a slice field without len and size
\* tags
AtBareSlice ==
    /\ stack # <<>>
    /\ TopFrame.fn = "emitReadStruct"
    /\ TopFrame.phase = "padding"
    /\ FieldOf(TopFrame).kind = "slice"
    /\ Len(FieldOf(TopFrame).len) = 0
    /\ Len(FieldOf(TopFrame).size) = 0

\* C20 as stated: a record with a slice field that has neither a len tag nor
\* a size tag never decodes: EmitReadStruct ends with a schema error
C20_BareSliceFails ==
    (top \in BareTypes /\ status \notin {"ready", "running", "panicking"}) =>
        /\ status # "ok"
        /\ err \in SchemaErrors

\* C20 amended: a slice field with neither a len tag nor a size tag is read
\* as it is and raises no schema error.  With elements of fixed width w and
\* n elements in the destination, n*w bytes are read into those n elements
\* (none for an empty slice), and the only error is that of a source too
\* short; with elements of no fixed size nothing is read and the slice is
\* left as it was
C20_BareSliceAsIs ==
    /\ AtBareSlice =>
           LET f == TopFrame
               fld == FieldOf(f)
               n == Len(f.old)
               size == SliceSize(fld, n)
           IN  /\ status \in {"running", "panicking"}
               /\ status = "panicking" =>
                      /\ err \in ReadErrors
                      /\ size > Len(input) - f.offset
                      /\ offset = f.offset
               /\ (status = "running" /\ size >= 0) =>
                      /\ offset - f.offset = size
                      /\ f.val[f.idx] = ReadSlice(fld, n, Region(size), byteOrder)
               /\ (status = "running" /\ size < 0) =>
                      /\ offset = f.offset
                      /\ rs[1].pos = offset
                      /\ f.val[f.idx] = f.old
    /\ (top \in BareTypes /\ status \notin {"ready", "running", "panicking"}) =>
           /\ err \notin SchemaErrors
           /\ Len(input) > Max(SliceSize(TypeDef(top)[1], Len(dest[1])), 0) =>
                  /\ status = "ok"
                  /\ offset = 1 + Max(SliceSize(TypeDef(top)[1], Len(dest[1])), 0)
                  /\ dest[2] = input[offset]

C20_Witness ==
    /\ status = "running"
    /\ AtBareSlice
    /\ top = "BareInt"
    /\ byteOrder = "big"
    /\ TopFrame.old = <<2>>
    /\ TopFrame.val[1] = <<256>>
    /\ offset = 2

\* C21: a slice field without a len tag (or with an empty one) and without a
\* size tag, whose destination slice is empty when it is dispatched, is
\* decoded without error, stays empty and consumes no byte: as the first
\* field of the record of a new parser it leaves Offset() at 0, and the
\* field after it is decoded from the first byte of the source
C21_EmptyBareSlice ==
    /\ (AtBareSlice /\ TopFrame.old = <<>>) =>
           /\ status = "running"
           /\ err = "nil"
           /\ TopFrame.val[TopFrame.idx] = <<>>
           /\ offset = TopFrame.offset
           /\ rs[1].pos = offset
           /\ (Len(stack) = 1 /\ TopFrame.idx = 1) => offset = 0
    /\ (top \in BareTypes /\ status = "ok" /\ dest[1] = <<>>) =>
           /\ offset = 1
           /\ dest[2] = input[1]
    /\ (top \in BareTypes /\ status \in {"error", "fault"}
            /\ dest[1] = <<>>) =>
           /\ input = <<>>
           /\ offset = 0

C21_Witness ==
    /\ status = "running"
    /\ AtBareSlice
    /\ top = "BareInt"
    /\ TopFrame.old = <<>>
    /\ TopFrame.val = <<<<>>, 0>>
    /\ input = <<1, 2>>
    /\ offset = 0

\* C22: a byte slice tagged len:"<inf>" is decoded without error, holds all
\* the bytes of the source in order, and Offset() is their number
C22_LenInf ==
    (top = "LenInf" /\ status \notin {"ready", "running", "panicking"}) =>
        /\ status = "ok"
        /\ dest[1] = input
        /\ offset = Len(input)

\* the sum of the first n values of t
RECURSIVE SumTo(_, _)
SumTo(t, n) == IF n = 0 THEN 0 ELSE t[n] + SumTo(t, n - 1)

\* the bytes bs weighed by the byte order: byte i (from 0) of w bytes weighs
\* 256^i in little-endian order and 256^(w-1-i) in big-endian order
Weighed(bs, order) ==
    SumTo([i \in 1..Len(bs) |->
              bs[i] * Pow256(IF order = "little" THEN i - 1 ELSE Len(bs) - i)],
          Len(bs))

\* C23: an unsigned integer field of w bytes that was decoded holds the sum
\* of its bytes weighed by the byte order of the parser, and Offset()
\* advanced by w; both fields of a record of two such fields are read in
\* that one order
C23_ByteOrder ==
    /\ (status = "running" /\ stack # <<>> /\ AfterPass(TopFrame)
            /\ TopFrame.done.how = "decoded"
            /\ TypeDef(TopFrame.typ)[TopFrame.done.idx].kind = "int"
            /\ ~TypeDef(TopFrame.typ)[TopFrame.done.idx].signed
            /\ Len(TypeDef(TopFrame.typ)[TopFrame.done.idx].pad) = 0) =>
           LET d == TopFrame.done
               w == TypeDef(TopFrame.typ)[d.idx].w
           IN  /\ d.mid - d.start = w
               /\ d.end = d.mid
               /\ Len(Region(w)) = w
               /\ TopFrame.val[d.idx] = Weighed(Region(w), byteOrder)
    /\ (top = "Wide" /\ status = "ok") =>
           /\ offset = 4
           /\ dest[1] = Weighed(SubSeq(input, 1, 2), byteOrder)
           /\ dest[2] = Weighed(SubSeq(input, 3, 4), byteOrder)

C23_Witness ==
    /\ top = "Wide"
    /\ status = "ok"
    /\ byteOrder = "big"
    /\ input = <<1, 2, 0, 255>>
    /\ dest = <<258, 255>>
    /\ offset = 4

\* C24: an error raised with RaiseError or RaiseError2 leaves EmitReadStruct
\* as a panic when the parser is panicky and as the returned error when it
\* is not; a panicky parser never returns an error, and the value that
\* leaves the call either way is the error that was raised
C24_Panicky ==
    /\ (status \in {"error", "fault"} /\ err \notin RuntimeErrors) =>
           /\ err # "nil"
           /\ status = IF panicky THEN "fault" ELSE "error"
    /\ panicky => status # "error"
    /\ status = "error" => err \in SchemaErrors \cup ReadErrors
                               \cup {"HookFailed", "InvalidPad",
                                     "LimitedSizeMismatch", "SizeConsistency",
                                     "InvalidArgument"}

C24_Witness ==
    /\ status = "fault"
    /\ panicky
    /\ top = "PtrPlain"
    /\ err = "PtrField"
    /\ offset = 1

\* the top frame is past the dispatch of a slice field with a len tag of
\* value n > 0 whose elements are records of no fixed size
AtVarSlice ==
    /\ status = "running"
    /\ stack # <<>>
    /\ AtPadding(TopFrame)
    /\ FieldOf(TopFrame).kind = "slice"
    /\ Len(FieldOf(TopFrame).len) > 0
    /\ Len(FieldOf(TopFrame).size) = 0
    /\ ElemSize(FieldOf(TopFrame)) < 0
    /\ ToInt(RefValue(TopFrame, FieldOf(TopFrame).len)) > 0

\* C25: a slice field with a len tag of value n > 0 and elements that are
\* records of no fixed size is past its dispatch with exactly n elements,
\* element i decoded from the bytes that follow those of element i-1, and
\* with Offset() advanced by the bytes of the n elements together; an
\* element bounded to 0 bytes by an elemsize tag consumes nothing and is
\* still one of the n, and the loop of readSliceOfLength never passes n
C25_LenSliceVar ==
    /\ AtVarSlice =>
           LET f == TopFrame
               fld == FieldOf(f)
               n == ToInt(RefValue(f, fld.len))
           IN  /\ f.got
               /\ Len(f.ret) = n
               /\ Len(fld.elemsize) = 0 =>
                      f.ret = StrsOf(Region(offset - f.offset))
               /\ (Len(fld.elemsize) > 0 /\ RefValue(f, fld.elemsize) = 0) =>
                      /\ offset = f.offset
                      /\ \A i \in 1..n : f.ret[i] = ZeroRecord(fld.elem)
               /\ (Len(fld.elemsize) > 0 /\ RefValue(f, fld.elemsize) > 0) =>
                      /\ offset - f.offset = n * RefValue(f, fld.elemsize)
                      /\ f.ret = StrsOf(Region(offset - f.offset))
    /\ \A k \in 1..Len(stack) :
           stack[k].fn = "readSliceOfLength" =>
               /\ stack[k].i <= stack[k].size
               /\ Len(stack[k].slice) = stack[k].size

C25_Witness ==
    /\ AtVarSlice
    /\ top = "SliceVar"
    /\ input = <<2, 0, 1, 255>>
    /\ TopFrame.ret = <<<<0, <<>>>>, <<1, <<255>>>>>>
    /\ offset = 4

\* C26: when EmitReadStruct has returned without error, a slice driven by a
\* len tag or a size tag holds the elements decoded from the source by this
\* call and nothing else, whatever it held before
C26_FreshSlice ==
    /\ (status = "ok" /\ top = "SliceByte") =>
           dest[2] = SubSeq(input, 2, 1 + dest[1])
    /\ (status = "ok" /\ top = "SizeVar") =>
           dest[2] = StrsOf(SubSeq(input, 2, 1 + Max(dest[1], 0)))
    /\ (status = "ok" /\ top = "SizeByte") =>
           dest[2] = SubSeq(input, 2, 1 + dest[1])

\* C27: the loop of readSliceFromBytes over a region ends: every walk of an
\* element that returns to the loop has consumed at least one byte of the
\* region, so that bytesRead reaches the size of the region.  (A walk that
\* consumes nothing leaves bytesRead and the reader as they were, and the
\* next pass repeats it.)
C27_LoopProgress ==
    (status = "running" /\ stack # <<>>
        /\ TopFrame.fn = "readSliceFromBytes" /\ TopFrame.got) =>
        offset > TopFrame.offset

\* C28: a field with pad tag "0" or "1" is followed by no padding byte, and
\* its padding raises nothing: the pass of the field ends where its dispatch
\* ended, and the only error of the pass is that of its own read
C28_PadZeroOne ==
    /\ (status = "running" /\ stack # <<>> /\ AfterPass(TopFrame)
            /\ TopFrame.done.how = "decoded"
            /\ TypeDef(TopFrame.typ)[TopFrame.done.idx].pad
                   \in {<<"0">>, <<"1">>}) =>
           TopFrame.done.end = TopFrame.done.mid
    /\ (status = "panicking" /\ stack # <<>>
            /\ TopFrame.fn = "emitReadStruct"
            /\ TopFrame.phase = "padding"
            /\ FieldOf(TopFrame).pad \in {<<"0">>, <<"1">>}) =>
           err \in ReadErrors
    /\ (top \in {"Pad0", "Pad1"} /\ Len(input) >= 1
            /\ Len(input) > input[1]
            /\ status \notin {"ready", "running", "panicking"}) =>
           /\ status = "ok"
           /\ offset = 1 + input[1]

\* the top frame is past the dispatch of a slice field whose len tag names a
\* signed field of negative value
AtNegativeLen ==
    /\ stack # <<>>
    /\ TopFrame.fn = "emitReadStruct"
    /\ TopFrame.phase = "padding"
    /\ FieldOf(TopFrame).kind = "slice"
    /\ Len(FieldOf(TopFrame).size) = 0
    /\ IndexOfName(TypeDef(TopFrame.typ), FieldOf(TopFrame).len) > 0
    /\ RefValue(TopFrame, FieldOf(TopFrame).len) < 0

\* C29: a slice field whose len tag resolves to a negative value is past
\* its dispatch without error, with no byte consumed and with an empty slice
C29_NegativeLen ==
    AtNegativeLen =>
        /\ status = "running"
        /\ err = "nil"
        /\ offset = TopFrame.offset
        /\ rs[1].pos = offset
        /\ ~TopFrame.got
        /\ TopFrame.val[TopFrame.idx] = <<>>

\* the top frame is past the dispatch of a nested-record field whose size
\* tag names a field of value 0
AtZeroSized ==
    /\ stack # <<>>
    /\ TopFrame.fn = "emitReadStruct"
    /\ TopFrame.phase = "padding"
    /\ FieldOf(TopFrame).kind = "struct"
    /\ IndexOfName(TypeDef(TopFrame.typ), FieldOf(TopFrame).size) > 0
    /\ RefValue(TopFrame, FieldOf(TopFrame).size) = 0

\* frame k is a call of readSliceOfLength whose elemsize tag names a field
\* of value 0
ZeroElemSized(k) ==
    /\ stack[k].fn = "readSliceOfLength"
    /\ IndexOfName(TypeDef(stack[k].typ), FieldOf(stack[k]).elemsize) > 0
    /\ RefValue(stack[k], FieldOf(stack[k]).elemsize) = 0

\* C30: a nested record whose size tag resolves to 0 is not walked: the
\* field is past its dispatch at once, without error, with its value as it
\* was, no method of the nested record called and no byte consumed; the
\* elements of a slice whose elemsize tag resolves to 0 are not walked
\* either, and each is passed over as the zero record the new slice was
\* made of
C30_ZeroSize ==
    /\ AtZeroSized =>
           /\ status = "running"
           /\ err = "nil"
           /\ ~TopFrame.got
           /\ TopFrame.val[TopFrame.idx] = TopFrame.old
           /\ offset = TopFrame.offset
           /\ rs[1].pos = offset
           /\ Len(rs) = 1
           /\ \A i \in 1..Len(log) : log[i].typ # FieldOf(TopFrame).elem
    /\ \A k \in 1..Len(stack) :
           ZeroElemSized(k) =>
               /\ k = Len(stack)
               /\ status = "running"
               /\ offset = stack[k - 1].offset
               /\ stack[k].i > 0 =>
                      stack[k].slice[stack[k].i] =
                          ZeroRecord(FieldOf(stack[k]).elem)
    /\ (top = "SizedHooked" /\ status = "ok" /\ dest[1] = 0) =>
           /\ offset = 1
           /\ log = <<>>
           /\ dest[2] \in {ZeroRecord("Hooked"), Prefilled("Hooked")}

C30_Witness ==
    /\ AtZeroSized
    /\ top = "SizedHooked"
    /\ input = <<0, 2, 1>>
    /\ TopFrame.old = Prefilled("Hooked")
    /\ TopFrame.val[2] = Prefilled("Hooked")
    /\ offset = 1
    /\ log = <<>>

=============================================================================
